---- MODULE Spec2Model ----
(***************************************************************************)
(* Model of the bitcoin_benchmark harness (src/src/main.rs): the daemon's  *)
(* sleep-and-fire loop, the one-shot run subcommand, and the blocking      *)
(* pipeline body git_update_repository -> run_hyperfine ->                 *)
(* save_results_to_db.  Time is a discrete clock; one fire time every      *)
(* Period ticks models the daily cron schedule.  f64 values are small      *)
(* naturals; JSON text is a sequence of string tokens.                     *)
(***************************************************************************)
EXTENDS Integers, Sequences, FiniteSets, TLC

\* ------------------------------------------------------------------ bounds
\* The clock stops advancing at MaxTime.
MaxTime == 3
\* Ticks between two consecutive fire times of the schedule.
Period == 1
\* Longest results list the (stubbed) driver writes into results.json.
MaxResults == 2

\* --------------------------------------------------------------- constants
repo_path == "/home/will/src/bitcoin"
db_path == "/home/will/src/bitcoin_benchmark/results.db"
\* Revision label the daemon passes to run_benchmark.
DaemonCommit == "master"
\* Values of --commit the run subcommand is invoked with.
CliCommits == {"master", "abc123"}

\* ------------------------------------------------------------ Option<T>
None == [some |-> FALSE]
Some(v) == [some |-> TRUE, v |-> v]

\* ------------------------------------------------- the artifact, as JSON
\* A JSON object is a function from member names to values.  A number is
\* a natural, a string a string, an array a sequence; null and nested
\* objects are tagged so that any two values of one member compare.
JNull == [kind |-> "null"]
JNum(n) == [kind |-> "num", v |-> n]
JObj(m) == [kind |-> "object", members |-> m]

\* The well-formed record of the happy path, without the optional members.
BaseRecord ==
    [command |-> "./build/src/bitcoind", mean |-> 3, median |-> 3,
     user |-> 1, system |-> 1, min |-> 2, max |-> 4,
     times |-> <<3>>, exit_codes |-> <<0>>]

\* stddev and parameters both missing.
RecBare == BaseRecord
\* parameters {"commit": "deadbeef"} and stddev present.
RecOverride ==
    BaseRecord @@ [stddev |-> JNum(1), parameters |-> JObj([commit |-> "deadbeef"])]
\* Statistics out of order (min > median, mean > max) and two samples with
\* one exit code; stddev and parameters null.
RecSkewed ==
    [command |-> "./build/src/bitcoind", mean |-> 9, median |-> 3,
     user |-> 1, system |-> 1, min |-> 5, max |-> 4,
     times |-> <<3, 5>>, exit_codes |-> <<0>>,
     stddev |-> JNull, parameters |-> JNull]

\* The required member mean is missing.
RecNoMean ==
    [command |-> "./build/src/bitcoind", median |-> 3,
     user |-> 1, system |-> 1, min |-> 2, max |-> 4,
     times |-> <<3>>, exit_codes |-> <<0>>]
\* parameters is an object without the member commit.
RecNoCommit == BaseRecord @@ [parameters |-> JObj([threads |-> "4"])]
\* parameters has commit and one more name/value pair.
RecExtra ==
    BaseRecord @@ [parameters |-> JObj([commit |-> "deadbeef", threads |-> "4"])]

\* The records the driver may put into results.json.
RawRecords == {RecBare, RecOverride, RecSkewed, RecNoMean, RecNoCommit, RecExtra}

RECURSIVE SeqsUpTo(_, _)
SeqsUpTo(S, n) ==
    IF n = 0 THEN {<<>>}
    ELSE LET shorter == SeqsUpTo(S, n - 1)
         IN  shorter \cup {Append(s, x) : s \in {t \in shorter : Len(t) = n - 1}, x \in S}

\* State of the file results.json in the checkout.
FileAbsent == [kind |-> "absent"]
\* The truncated document "{" (or any text that is not a results document).
FileMalformed == [kind |-> "malformed"]
FileDoc(rs) == [kind |-> "doc", results |-> rs]
Artifacts ==
    {FileAbsent, FileMalformed} \cup {FileDoc(rs) : rs \in SeqsUpTo(RawRecords, MaxResults)}

\* ------------------------------------------------------------- the parser
RequiredFields ==
    {"command", "mean", "median", "user", "system", "min", "max", "times", "exit_codes"}

\* Option<f64> with #[serde(default)]: missing or null is None.
DecodeStddev(r) ==
    IF "stddev" \notin DOMAIN r THEN None
    ELSE IF r["stddev"].kind = "null" THEN None
    ELSE Some(r["stddev"].v)

\* struct Parameters { commit: String }: the object must have commit,
\* other members are ignored.
ParametersDecodable(r) ==
    \/ "parameters" \notin DOMAIN r
    \/ r["parameters"].kind = "null"
    \/ /\ r["parameters"].kind = "object"
       /\ "commit" \in DOMAIN r["parameters"].members

DecodeParameters(r) ==
    IF "parameters" \notin DOMAIN r THEN None
    ELSE IF r["parameters"].kind = "null" THEN None
    ELSE Some([commit |-> r["parameters"].members["commit"]])

RecordDecodable(r) ==
    /\ RequiredFields \subseteq DOMAIN r
    /\ ParametersDecodable(r)

\* Deserialize for BenchmarkResult.
BenchmarkResult(r) ==
    [command |-> r["command"], mean |-> r["mean"], stddev |-> DecodeStddev(r),
     median |-> r["median"], user |-> r["user"], system |-> r["system"],
     min |-> r["min"], max |-> r["max"], times |-> r["times"],
     exit_codes |-> r["exit_codes"], parameters |-> DecodeParameters(r)]

\* serde_json::from_str::<HyperfineResults>: Ok with every record decoded,
\* or Err when the text is not a document or any record fails to decode.
FromStrOk(data) ==
    /\ data.kind = "doc"
    /\ \A j \in 1..Len(data.results) : RecordDecodable(data.results[j])

HyperfineResults(data) ==
    [j \in 1..Len(data.results) |-> BenchmarkResult(data.results[j])]

\* ------------------------------------------------- serde_json::to_string
F64Text == <<"0.0", "1.0", "2.0", "3.0", "4.0", "5.0", "6.0", "7.0", "8.0", "9.0">>
I32Text == <<"0", "1", "2", "3", "4", "5", "6", "7", "8", "9">>

RECURSIVE JoinTokens(_, _)
JoinTokens(toks, n) ==
    IF n = 0 THEN <<>>
    ELSE IF n = 1 THEN <<toks[1]>>
    ELSE JoinTokens(toks, n - 1) \o <<",", toks[n]>>

ArrayText(toks) == <<"[">> \o JoinTokens(toks, Len(toks)) \o <<"]">>
TimesText(ts) == ArrayText([j \in 1..Len(ts) |-> F64Text[ts[j] + 1]])
ExitCodesText(cs) == ArrayText([j \in 1..Len(cs) |-> I32Text[cs[j] + 1]])
\* Option<Parameters>: null, or an object with the one member commit.
ParametersText(p) ==
    IF p.some THEN <<"{", "\"commit\"", ":", p.v.commit, "}">> ELSE <<"null">>

\* ------------------------------------------------------------------ state
VARIABLES
    command,    \* cli.command: what the process was started with
    pc,         \* position of main / start_daemon on the reactor
    exit_code,  \* exit status of the process once pc = "exit"
    now,        \* the clock (Utc::now and the timer)
    upcoming,   \* schedule.upcoming(Utc): the instant the iterator stands at
    datetime,   \* the fire time the loop body holds
    tasks,      \* the blocking closures spawned so far, in spawn order
    cwd,        \* the process working directory
    file,       \* results.json in the checkout
    db,         \* the SQLite database file
    stderr,     \* number of errors the process printed to standard error
    stdout,     \* what the process has written to its standard output
    stub,       \* what the driver on this machine writes when it exits 0
    examined,   \* history: fire times the loop examined and when
    inserts     \* history: the INSERT statements that added a row

vars ==
    <<command, pc, exit_code, now, upcoming, datetime, tasks, cwd, file, db,
      stderr, stdout, stub, examined, inserts>>

\* ------------------------------------------------------------ Result<()>
Pending == [state |-> "pending"]
Ok == [state |-> "ok"]
NoOutput == [status |-> 0, stdout |-> "", stderr |-> ""]
\* An anyhow error: its message, and for the driver's failure the exit
\* status and captured streams formatted into the message.
Err(msg, out) == [state |-> "err", msg |-> msg, out |-> out]

\* ------------------------------------------------------------ environment
\* What a spawned external tool can do: fail to start, or exit with a status.
NotSpawned == [spawned |-> FALSE, code |-> 0]
Exited(c) == [spawned |-> TRUE, code |-> c]
ToolOutcomes == {NotSpawned, Exited(0), Exited(1)}
\* Exit status and captured stdout/stderr of a failing driver.
DriverFailures ==
    {[status |-> 1, stdout |-> "setup", stderr |-> "cmake error"],
     [status |-> 2, stdout |-> "", stderr |-> "killed"]}

\* cron's iterator: the first fire time strictly after the given instant.
NextFire(after) == ((after \div Period) + 1) * Period

\* ------------------------------------------------------------------ Init
NoCommit == ""
Commands ==
    {[kind |-> "daemon", commit |-> NoCommit], [kind |-> "none", commit |-> NoCommit]}
    \cup {[kind |-> "run", commit |-> c] : c \in CliCommits}

EmptyDb == [exists |-> FALSE, table |-> FALSE, rows |-> <<>>]

Init ==
    /\ command \in Commands
    /\ pc = "main"
    /\ exit_code = 0
    /\ now \in 0..(Period - 1)
    /\ upcoming = 0
    /\ datetime = 0
    /\ tasks = <<>>
    /\ cwd = "/"
    /\ file = FileAbsent
    /\ db = EmptyDb
    /\ stderr = 0
    /\ stdout = <<>>
    /\ stub \in Artifacts
    /\ examined = <<>>
    /\ inserts = <<>>

\* ------------------------------------------------- tokio::task::spawn_blocking
\* Variant: the closure's body begins at run_hyperfine.
NewTaskNoWorkspace(commit, fire) ==
    [pc |-> "hf_chdir", commit |-> commit, fire |-> fire, result |-> Pending,
     data |-> FileAbsent, results |-> <<>>, i |-> 0, log |-> <<>>,
     rows0 |-> db.rows, fetch |-> NotSpawned, checkout |-> NotSpawned,
     driver |-> NotSpawned, output |-> NoOutput, failed |-> 0, joined |-> FALSE]

\* The closure as spawned: it owns commit and starts at its first statement.
NewTask(commit, fire) ==
    [pc |-> "git_chdir", commit |-> commit, fire |-> fire, result |-> Pending,
     data |-> FileAbsent, results |-> <<>>, i |-> 0, log |-> <<>>,
     rows0 |-> db.rows, fetch |-> NotSpawned, checkout |-> NotSpawned,
     driver |-> NotSpawned, output |-> NoOutput, failed |-> 0, joined |-> FALSE]

\* What is left of a closure once its JoinHandle has been awaited and the
\* result handled: the closure's captures and locals and the error value
\* are dropped; that it succeeded or failed is kept as history.
Joined(t) ==
    [NewTask(t.commit, t.fire) EXCEPT
        !.pc = "done", !.rows0 = <<>>, !.joined = TRUE,
        !.result = IF t.result.state = "err" THEN Err("", NoOutput) ELSE Ok]

SpawnBlocking(commit, fire) == tasks' = Append(tasks, NewTask(commit, fire))

\* The JoinHandle of the most recent run_benchmark call is ready.
Resolved == Len(tasks) > 0 /\ tasks[Len(tasks)].pc = "done"
LastResult == tasks[Len(tasks)].result

\* ----------------------------------------------------------- the clock
\* Time passes while the reactor is suspended: in sleep(delay), or in the
\* await of the closure.  The closure never reads the clock, so the time a
\* run takes is accounted for once its body has finished.
Tick ==
    /\ now < MaxTime
    /\ \/ pc = "sleep"
       \/ pc \in {"await", "run_await"} /\ Resolved
    /\ now' = now + 1
    /\ UNCHANGED <<stdout, command, pc, exit_code, upcoming, datetime, tasks, cwd, file,
                   db, stderr, stub, examined, inserts>>

\* ------------------------------------------------- the blocking closure
\* Task k is at position p of the closure's body.
At(k, p) == k \in 1..Len(tasks) /\ tasks[k].pc = p

\* The closure returns with result r (the ? operator, or the final Ok).
Return(t, r) == [t EXCEPT !.pc = "done", !.result = r]
\* The closure moves on to position p; step is recorded in the task's log.
Goto(t, step, p) == [t EXCEPT !.pc = p, !.log = Append(@, step)]

Frame ==
    UNCHANGED <<stdout, command, pc, exit_code, now, upcoming, datetime, stderr, examined>>

\* git_update_repository: std::env::set_current_dir(repo_path)
GitChdir(k) ==
    /\ At(k, "git_chdir")
    /\ \E ok \in BOOLEAN :
        IF ok
        THEN /\ cwd' = repo_path
             /\ tasks' = [tasks EXCEPT ![k] = Goto(@, "git_chdir", "git_fetch")]
        ELSE /\ cwd' = cwd
             /\ tasks' = [tasks EXCEPT ![k] =
                            Return(@, Err("Failed to change directory", NoOutput))]
    /\ Frame
    /\ UNCHANGED <<stub, file, db, inserts>>

\* Command::status()?: Err only when the tool could not be started.
StatusOk(outcome) == outcome.spawned

\* git fetch --all
GitFetch(k) ==
    /\ At(k, "git_fetch")
    /\ \E outcome \in ToolOutcomes :
        tasks' = [tasks EXCEPT ![k] =
            IF StatusOk(outcome)
            THEN Goto([@ EXCEPT !.fetch = outcome], "git_fetch", "git_checkout")
            ELSE Return(@, Err("Failed to fetch git repository", NoOutput))]
    /\ Frame
    /\ UNCHANGED <<stub, cwd, file, db, inserts>>

\* git checkout <commit>
GitCheckout(k) ==
    /\ At(k, "git_checkout")
    /\ \E outcome \in ToolOutcomes :
        tasks' = [tasks EXCEPT ![k] =
            IF StatusOk(outcome)
            THEN Goto([@ EXCEPT !.checkout = outcome], "git_checkout", "hf_chdir")
            ELSE Return(@, Err("Failed to checkout commit", NoOutput))]
    /\ Frame
    /\ UNCHANGED <<stub, cwd, file, db, inserts>>

\* run_hyperfine: std::env::set_current_dir(repo_path)
HfChdir(k) ==
    /\ At(k, "hf_chdir")
    /\ \E ok \in BOOLEAN :
        IF ok
        THEN /\ cwd' = repo_path
             /\ tasks' = [tasks EXCEPT ![k] = Goto(@, "hf_chdir", "hf_run")]
        ELSE /\ cwd' = cwd
             /\ tasks' = [tasks EXCEPT ![k] =
                            Return(@, Err("Failed to change directory", NoOutput))]
    /\ Frame
    /\ UNCHANGED <<stub, file, db, inserts>>

\* Variant: the driver's exit status is not looked at.
SuccessUnchecked(status) == TRUE

\* output.status.success()
Success(status) == status = 0

\* sh -c "hyperfine ... --export-json results.json ...": .output() runs the
\* driver to completion and captures its streams.  A driver that exits 0
\* leaves its artifact in results.json; one that fails leaves the file as
\* it was.  A run reads only the artifact its own driver produced, so one
\* artifact per process is followed.
HfRun(k) ==
    /\ At(k, "hf_run")
    /\ \/ /\ tasks' = [tasks EXCEPT ![k] =
                Return(@, Err("Failed to execute hyperfine command", NoOutput))]
          /\ file' = file
       \/ \E out \in DriverFailures \cup {NoOutput} :
            IF Success(out.status)
            THEN /\ file' = stub
                 /\ tasks' = [tasks EXCEPT ![k] =
                        Goto([@ EXCEPT !.driver = Exited(out.status), !.output = out],
                             "hf_run", "read")]
            ELSE /\ file' = file
                 /\ tasks' = [tasks EXCEPT ![k] =
                        Return([@ EXCEPT !.driver = Exited(out.status), !.output = out],
                               Err("Hyperfine command failed", out))]
    /\ Frame
    /\ UNCHANGED <<stub, cwd, db, inserts>>

\* Variant: the connection is opened before the artifact is read.
SaveReadConnected(k) ==
    /\ At(k, "read")
    /\ db' = [db EXCEPT !.exists = TRUE]
    /\ tasks' = [tasks EXCEPT ![k] =
            IF file.kind # "absent"
            THEN Goto([@ EXCEPT !.data = file], "read", "parse")
            ELSE Return(@, Err("Failed to read results.json file", NoOutput))]
    /\ Frame
    /\ UNCHANGED <<stub, cwd, file, inserts>>

\* save_results_to_db: fs::read_to_string(results.json)
SaveRead(k) ==
    /\ At(k, "read")
    /\ tasks' = [tasks EXCEPT ![k] =
            IF file.kind # "absent"
            THEN Goto([@ EXCEPT !.data = file], "read", "parse")
            ELSE Return(@, Err("Failed to read results.json file", NoOutput))]
    /\ Frame
    /\ UNCHANGED <<stub, cwd, file, db, inserts>>

\* Variant: a record that fails to decode is left out, the rest is kept.
SaveParseLenient(k) ==
    /\ At(k, "parse")
    /\ tasks' = [tasks EXCEPT ![k] =
            IF tasks[k].data.kind = "doc"
            THEN LET good == SelectSeq(tasks[k].data.results, RecordDecodable)
                 IN  Goto([@ EXCEPT !.results = HyperfineResults(FileDoc(good))],
                          "parse", "open")
            ELSE Return(@, Err("Failed to parse JSON from results.json", NoOutput))]
    /\ Frame
    /\ UNCHANGED <<stub, cwd, file, db, inserts>>

\* Variant: a parameters object without commit is decoded as no parameters.
SaveParseDefaulting(k) ==
    /\ At(k, "parse")
    /\ tasks' = [tasks EXCEPT ![k] =
            LET data == tasks[k].data
                Plain(r) == [f \in DOMAIN r \ {"parameters"} |-> r[f]]
                Decode(r) == IF ParametersDecodable(r) THEN BenchmarkResult(r)
                             ELSE BenchmarkResult(Plain(r))
            IN  IF /\ data.kind = "doc"
                   /\ \A j \in 1..Len(data.results) :
                         RequiredFields \subseteq DOMAIN data.results[j]
                THEN Goto([@ EXCEPT !.results =
                               [j \in 1..Len(data.results) |-> Decode(data.results[j])]],
                          "parse", "open")
                ELSE Return(@, Err("Failed to parse JSON from results.json", NoOutput))]
    /\ Frame
    /\ UNCHANGED <<stub, cwd, file, db, inserts>>

\* serde_json::from_str(&data)
SaveParse(k) ==
    /\ At(k, "parse")
    /\ tasks' = [tasks EXCEPT ![k] =
            IF FromStrOk(tasks[k].data)
            THEN Goto([@ EXCEPT !.results = HyperfineResults(tasks[k].data)],
                      "parse", "open")
            ELSE Return(@, Err("Failed to parse JSON from results.json", NoOutput))]
    /\ Frame
    /\ UNCHANGED <<stub, cwd, file, db, inserts>>

\* Connection::open(db_path): creates the file when it is missing.
SaveOpen(k) ==
    /\ At(k, "open")
    /\ \E ok \in BOOLEAN :
        IF ok
        THEN /\ db' = [db EXCEPT !.exists = TRUE]
             /\ tasks' = [tasks EXCEPT ![k] = Goto(@, "open", "create")]
        ELSE /\ db' = db
             /\ tasks' = [tasks EXCEPT ![k] =
                    Return(@, Err("Failed to connect to SQLite database", NoOutput))]
    /\ Frame
    /\ UNCHANGED <<stub, cwd, file, inserts>>

\* Variant: the table is dropped and created anew on every invocation.
SaveCreateFresh(k) ==
    /\ At(k, "create")
    /\ \E ok \in BOOLEAN :
        IF ok
        THEN /\ db' = [db EXCEPT !.table = TRUE, !.rows = <<>>]
             /\ tasks' = [tasks EXCEPT ![k] = Goto([@ EXCEPT !.i = 1], "create", "insert")]
        ELSE /\ db' = db
             /\ tasks' = [tasks EXCEPT ![k] =
                    Return(@, Err("Failed to create benchmarks table", NoOutput))]
    /\ Frame
    /\ UNCHANGED <<stub, cwd, file, inserts>>

\* CREATE TABLE IF NOT EXISTS benchmarks (...)
SaveCreate(k) ==
    /\ At(k, "create")
    /\ \E ok \in BOOLEAN :
        IF ok
        THEN /\ db' = [db EXCEPT !.table = TRUE]
             /\ tasks' = [tasks EXCEPT ![k] = Goto([@ EXCEPT !.i = 1], "create", "insert")]
        ELSE /\ db' = db
             /\ tasks' = [tasks EXCEPT ![k] =
                    Return(@, Err("Failed to create benchmarks table", NoOutput))]
    /\ Frame
    /\ UNCHANGED <<stub, cwd, file, inserts>>

\* Variant: the row is always filed under the commit passed in.
commit_value_supplied(result, commit) == commit

\* The commit the row is filed under: parameters.commit if the record has
\* parameters, else the commit the pipeline was called with.
commit_value(result, commit) ==
    IF result.parameters.some THEN result.parameters.v.commit ELSE commit

\* INTEGER PRIMARY KEY: one more than the largest rowid in the table.
RECURSIVE MaxId(_)
MaxId(rows) ==
    IF rows = <<>> THEN 0
    ELSE LET m == MaxId(Tail(rows)) IN IF Head(rows).id > m THEN Head(rows).id ELSE m

\* The row the INSERT statement binds for one record.
Row(id, result, commit) ==
    [id |-> id, commit_hash |-> commit_value(result, commit),
     command |-> result.command, mean |-> result.mean, stddev |-> result.stddev,
     median |-> result.median, user |-> result.user, system |-> result.system,
     min |-> result.min, max |-> result.max,
     times |-> TimesText(result.times),
     exit_codes |-> ExitCodesText(result.exit_codes),
     parameters |-> ParametersText(result.parameters)]

\* Variant: a failed INSERT is noted and the loop goes on.
SaveInsertLenient(k) ==
    /\ At(k, "insert")
    /\ tasks[k].i <= Len(tasks[k].results)
    /\ LET t == tasks[k]
           id == MaxId(db.rows) + 1
       IN \E ok \in BOOLEAN :
            IF ok
            THEN /\ db' = [db EXCEPT !.rows = Append(@, Row(id, t.results[t.i], t.commit))]
                 /\ tasks' = [tasks EXCEPT ![k] = Goto([@ EXCEPT !.i = t.i + 1],
                                                       "insert", "insert")]
                 /\ inserts' = Append(inserts, [task |-> k, rec |-> t.i, id |-> id])
            ELSE /\ db' = db
                 /\ tasks' = [tasks EXCEPT ![k] = [@ EXCEPT !.failed = t.i, !.i = t.i + 1]]
                 /\ inserts' = inserts
    /\ Frame
    /\ UNCHANGED <<stub, cwd, file>>

\* One iteration of "for result in results.results": a single INSERT in
\* autocommit mode, which either adds the whole row or fails (?).
SaveInsert(k) ==
    /\ At(k, "insert")
    /\ tasks[k].i <= Len(tasks[k].results)
    /\ LET t == tasks[k]
           id == MaxId(db.rows) + 1
       IN \E ok \in BOOLEAN :
            IF ok
            THEN /\ db' = [db EXCEPT !.rows = Append(@, Row(id, t.results[t.i], t.commit))]
                 /\ tasks' = [tasks EXCEPT ![k] = Goto([@ EXCEPT !.i = t.i + 1],
                                                       "insert", "insert")]
                 /\ inserts' = Append(inserts, [task |-> k, rec |-> t.i, id |-> id])
            ELSE /\ db' = db
                 /\ tasks' = [tasks EXCEPT ![k] =
                        Return([@ EXCEPT !.failed = t.i],
                               Err("Failed to insert benchmark result into database",
                                   NoOutput))]
                 /\ inserts' = inserts
    /\ Frame
    /\ UNCHANGED <<stub, cwd, file>>

\* Variant: the loop stops one record early.
SaveReturnEarly(k) ==
    /\ At(k, "insert")
    /\ tasks[k].i >= Len(tasks[k].results)
    /\ tasks' = [tasks EXCEPT ![k] = Return(@, Ok)]
    /\ Frame
    /\ UNCHANGED <<stub, cwd, file, db, inserts>>

\* The loop is exhausted: save_results_to_db and the closure return Ok(()).
SaveReturn(k) ==
    /\ At(k, "insert")
    /\ tasks[k].i > Len(tasks[k].results)
    /\ tasks' = [tasks EXCEPT ![k] = Return(@, Ok)]
    /\ Frame
    /\ UNCHANGED <<stub, cwd, file, db, inserts>>

\* The closure panics: its stack is unwound and its JoinHandle yields a
\* JoinError, which run_benchmark maps to an error.
Unwound(t) ==
    [NewTask(t.commit, t.fire) EXCEPT
        !.pc = "done", !.result = Err("Task failed", NoOutput), !.rows0 = t.rows0]

TaskPanic(k) ==
    /\ k \in 1..Len(tasks)
    /\ tasks[k].pc # "done"
    /\ tasks' = [tasks EXCEPT ![k] = Unwound(@)]
    /\ Frame
    /\ UNCHANGED <<stub, cwd, file, db, inserts>>

\* ---------------------------------------------------------------- main
World == UNCHANGED <<cwd, file, db, stub, inserts>>

\* Some(Commands::Daemon): start_daemon builds the schedule iterator.
MainDaemon ==
    /\ pc = "main"
    /\ command.kind = "daemon"
    /\ upcoming' = now
    /\ pc' = "loop"
    /\ UNCHANGED <<stdout, command, exit_code, now, datetime, tasks, stderr, examined>>
    /\ World

\* Some(Commands::Run { commit }): run_benchmark(commit) is started.
MainRun ==
    /\ pc = "main"
    /\ command.kind = "run"
    /\ SpawnBlocking(command.commit, 0)
    /\ pc' = "run_await"
    /\ UNCHANGED <<stdout, command, exit_code, now, upcoming, datetime, stderr, examined>>
    /\ World

\* Variant: the pipeline's error is printed and main returns Ok(()).
RunJoinLogged ==
    /\ pc = "run_await"
    /\ Resolved
    /\ pc' = "exit"
    /\ exit_code' = 0
    /\ stderr' = IF LastResult.state = "err" THEN stderr + 1 ELSE stderr
    /\ tasks' = [tasks EXCEPT ![Len(tasks)] = Joined(@)]
    /\ UNCHANGED <<stdout, command, now, upcoming, datetime, examined>>
    /\ World

\* run_benchmark(commit).await?: main returns what the pipeline returned.
RunJoin ==
    /\ pc = "run_await"
    /\ Resolved
    /\ pc' = "exit"
    /\ IF LastResult.state = "err"
       THEN exit_code' = 1 /\ stderr' = stderr + 1
       ELSE exit_code' = 0 /\ stderr' = stderr
    /\ tasks' = [tasks EXCEPT ![Len(tasks)] = Joined(@)]
    /\ UNCHANGED <<stdout, command, now, upcoming, datetime, examined>>
    /\ World

UsageHint == "Please specify a command. Use --help for more information."

\* None: the usage hint is printed and main returns Ok(()).
MainNone ==
    /\ pc = "main"
    /\ command.kind = "none"
    /\ stdout' = Append(stdout, UsageHint)
    /\ pc' = "exit"
    /\ exit_code' = 0
    /\ UNCHANGED <<command, now, upcoming, datetime, tasks, stderr, examined>>
    /\ World

\* -------------------------------------------------------- start_daemon
\* Variant: the sign of the duration is not looked at.
NotPastUnchecked(dt, at) == TRUE

\* duration.to_std().is_ok(): the duration datetime - now is not negative.
NotPast(dt, at) == dt - at >= 0

\* while let Some(datetime) = upcoming.next(): the next fire time is taken
\* and compared with the clock; a past one is skipped (continue).
DaemonNext ==
    /\ pc = "loop"
    /\ LET dt == NextFire(upcoming)
       IN /\ datetime' = dt
          /\ upcoming' = dt
          /\ examined' = Append(examined, [t |-> dt, at |-> now])
          /\ pc' = IF NotPast(dt, now) THEN "sleep" ELSE "loop"
    /\ UNCHANGED <<stdout, command, exit_code, now, tasks, stderr>>
    /\ World

\* Variant: the pipeline is started without sleeping until the fire time.
DaemonFireNoSleep ==
    /\ pc = "sleep"
    /\ SpawnBlocking(DaemonCommit, datetime)
    /\ pc' = "await"
    /\ UNCHANGED <<stdout, command, exit_code, now, upcoming, datetime, stderr, examined>>
    /\ World

\* sleep(delay).await is over; run_benchmark("master") is started.
DaemonFire ==
    /\ pc = "sleep"
    /\ now >= datetime
    /\ SpawnBlocking(DaemonCommit, datetime)
    /\ pc' = "await"
    /\ UNCHANGED <<stdout, command, exit_code, now, upcoming, datetime, stderr, examined>>
    /\ World

\* Variant: the pipeline is spawned and not awaited.
DaemonJoinDetached ==
    /\ pc = "await"
    /\ pc' = "loop"
    /\ UNCHANGED <<stdout, command, exit_code, now, upcoming, datetime, tasks, stderr, examined>>
    /\ World

\* Variant: the pipeline's error is propagated with ? out of start_daemon.
DaemonJoinPropagating ==
    /\ pc = "await"
    /\ Resolved
    /\ IF LastResult.state = "err"
       THEN pc' = "exit" /\ exit_code' = 1 /\ stderr' = stderr + 1
       ELSE pc' = "loop" /\ exit_code' = exit_code /\ stderr' = stderr
    /\ tasks' = [tasks EXCEPT ![Len(tasks)] = Joined(@)]
    /\ UNCHANGED <<stdout, command, now, upcoming, datetime, examined>>
    /\ World

\* run_benchmark(...).await has resolved; an Err is printed and dropped.
DaemonJoin ==
    /\ pc = "await"
    /\ Resolved
    /\ stderr' = IF LastResult.state = "err" THEN stderr + 1 ELSE stderr
    /\ tasks' = [tasks EXCEPT ![Len(tasks)] = Joined(@)]
    /\ pc' = "loop"
    /\ UNCHANGED <<stdout, command, exit_code, now, upcoming, datetime, examined>>
    /\ World

\* ------------------------------------------------------------------ Next
TaskStep(k) ==
    \/ GitChdir(k)
    \/ GitFetch(k)
    \/ GitCheckout(k)
    \/ HfChdir(k)
    \/ HfRun(k)
    \/ SaveRead(k)
    \/ SaveParse(k)
    \/ SaveOpen(k)
    \/ SaveCreate(k)
    \/ SaveInsert(k)
    \/ SaveReturn(k)
    \/ TaskPanic(k)

Next ==
    \/ Tick
    \/ MainDaemon
    \/ MainRun
    \/ RunJoin
    \/ MainNone
    \/ DaemonNext
    \/ DaemonFire
    \/ DaemonJoin
    \/ \E k \in 1..Len(tasks) : TaskStep(k)

Spec == Init /\ [][Next]_vars

\* ================================================================ claims
\* Task k has been spawned and its JoinHandle not yet consumed.
Live(k) == k \in 1..Len(tasks) /\ ~tasks[k].joined
\* The closure of task k is still executing.
InFlight(k) == k \in 1..Len(tasks) /\ tasks[k].pc # "done"
\* A task exists for fire time t.
FiredFor(t) == \E k \in 1..Len(tasks) : tasks[k].fire = t

\* C1: in daemon mode at most one pipeline is in flight: a pipeline is only
\* ever started when every pipeline started for an earlier fire time has
\* resolved, so no two closures execute at once.
C1_SingleFlight ==
    /\ Cardinality({k \in 1..Len(tasks) : InFlight(k)}) <= 1
    /\ \A k \in 1..Len(tasks) : InFlight(k) => k = Len(tasks)

\* A second pipeline is running after the first has resolved.
C1_Witness ==
    /\ command.kind = "daemon"
    /\ Len(tasks) = 2
    /\ tasks[1].pc = "done"
    /\ tasks[2].pc = "hf_run"

\* C2: a failed pipeline never terminates the daemon: the daemon never
\* leaves its loop, and every fire time found to lie in the future when
\* examined (also after failed runs) is waited for and then started.
C2_FailureKeepsDaemon ==
    command.kind = "daemon" =>
        /\ pc \in {"main", "loop", "sleep", "await"}
        /\ exit_code = 0
        /\ stderr = Cardinality({k \in 1..Len(tasks) :
                                    tasks[k].joined /\ tasks[k].result.state = "err"})
        /\ \A j \in 1..Len(examined) :
              examined[j].t >= examined[j].at =>
                  \/ FiredFor(examined[j].t)
                  \/ j = Len(examined) /\ pc = "sleep" /\ datetime = examined[j].t

\* A pipeline has been started after an earlier one failed and was logged.
C2_Witness ==
    /\ command.kind = "daemon"
    /\ Len(tasks) = 2
    /\ tasks[1].joined
    /\ tasks[1].result.state = "err"
    /\ stderr = 1
    /\ tasks[2].fire > tasks[1].fire

\* C3: the loop examines the schedule's fire times one by one; a fire time
\* already in the past when examined starts no pipeline, and a pipeline is
\* started only for a fire time that was not in the past when examined, so
\* after an overrun the next run is for the first fire time still ahead.
C3_PastFireSkipped ==
    /\ \A j \in 1..Len(examined) :
          /\ examined[j].t = examined[1].t + (j - 1) * Period
          /\ examined[j].at > examined[j].t => ~FiredFor(examined[j].t)
    /\ command.kind = "daemon" =>
          \A k \in 1..Len(tasks) :
              \E j \in 1..Len(examined) :
                  /\ examined[j].t = tasks[k].fire
                  /\ examined[j].at <= examined[j].t
                  /\ \A h \in 1..(j - 1) :
                        examined[h].at > examined[h].t \/ FiredFor(examined[h].t)

\* After a run that overran a fire time, that fire time was skipped and the
\* next pipeline was started for a later one.
C3_Witness ==
    /\ Len(tasks) = 2
    /\ \E j \in 1..Len(examined) :
          /\ examined[j].at > examined[j].t
          /\ tasks[1].fire < examined[j].t
          /\ examined[j].t < tasks[2].fire

\* The INSERTs task k has executed, in execution order.
InsertsOf(k) == SelectSeq(inserts, LAMBDA e : e.task = k)
\* The row with primary key id.
RowById(id) == CHOOSE r \in {db.rows[j] : j \in 1..Len(db.rows)} : r.id = id
\* Step s is in the log of task k.
Did(k, s) == \E j \in 1..Len(tasks[k].log) : tasks[k].log[j] = s
\* A tool was started and reported a non-zero status.
NonZero(outcome) == outcome.spawned /\ outcome.code # 0

\* C4 (as claimed): a non-zero exit status of git fetch or of git checkout
\* fails git_update_repository, so the pipeline has failed without running
\* the driver and without inserting a row.
C4_NonZeroGitFails ==
    \A k \in 1..Len(tasks) :
        (Live(k) /\ (NonZero(tasks[k].fetch) \/ NonZero(tasks[k].checkout))) =>
            /\ tasks[k].pc \in {"git_checkout", "done"}
            /\ tasks[k].pc = "done" => tasks[k].result.state = "err"
            /\ ~Did(k, "hf_chdir")
            /\ ~Did(k, "hf_run")
            /\ InsertsOf(k) = <<>>

\* C5: a non-zero exit status of the driver fails run_hyperfine with an
\* error carrying that status and the captured stdout and stderr; the
\* artifact is not read and the table holds the rows it held before.
C5_DriverFailureAborts ==
    \A k \in 1..Len(tasks) :
        (Live(k) /\ NonZero(tasks[k].driver)) =>
            /\ tasks[k].pc = "done"
            /\ tasks[k].result = Err("Hyperfine command failed", tasks[k].output)
            /\ tasks[k].result.out.status = tasks[k].driver.code
            /\ tasks[k].result.out \in DriverFailures
            /\ ~Did(k, "read")
            /\ InsertsOf(k) = <<>>
            /\ db.rows = tasks[k].rows0

\* The driver failed in a pipeline that found rows in the table.
C5_Witness ==
    \E k \in 1..Len(tasks) :
        /\ Live(k)
        /\ NonZero(tasks[k].driver)
        /\ tasks[k].rows0 # <<>>
        /\ tasks[k].result.out.stderr = "cmake error"

\* The steps of one pipeline with n records, in program order.
PipelineOrder(n) ==
    <<"git_chdir", "git_fetch", "git_checkout", "hf_chdir", "hf_run",
      "read", "parse", "open", "create">> \o [j \in 1..n |-> "insert"]
IsPrefix(s, t) == Len(s) <= Len(t) /\ \A j \in 1..Len(s) : s[j] = t[j]
\* The rows task k added: those after the rows it found.
RowsAdded(k) == SubSeq(db.rows, Len(tasks[k].rows0) + 1, Len(db.rows))

\* C6: the steps of one invocation happen in the order workspace, runner,
\* read and parse of the whole artifact, then the inserts; and the j-th
\* row the invocation adds is the row of the j-th record of the artifact.
C6_StepOrder ==
    \A k \in 1..Len(tasks) :
        Live(k) =>
            /\ IsPrefix(tasks[k].log, PipelineOrder(MaxResults + 1))
            /\ Did(k, "open") =>
                  Len(tasks[k].results) = Len(tasks[k].data.results)
            /\ Did(k, "parse") => \A j \in 1..Len(InsertsOf(k)) :
                  /\ InsertsOf(k)[j].rec = j
                  /\ j > 1 => InsertsOf(k)[j].id > InsertsOf(k)[j - 1].id
                  /\ RowById(InsertsOf(k)[j].id).mean = tasks[k].data.results[j]["mean"]

\* Both records of a two-record artifact with different means are stored.
C6_Witness ==
    \E k \in 1..Len(tasks) :
        /\ Live(k)
        /\ tasks[k].rows0 # <<>>
        /\ tasks[k].result = Ok
        /\ Len(InsertsOf(k)) = 2
        /\ tasks[k].data.results[1]["mean"] # tasks[k].data.results[2]["mean"]

\* The commit named by record r of the artifact, or the revision.
EffectiveCommit(r, revision) ==
    IF "parameters" \in DOMAIN r /\ r["parameters"].kind = "object"
    THEN r["parameters"].members["commit"]
    ELSE revision

\* C7: a row's commit_hash is the artifact record's parameters.commit when
\* the record has parameters, and the pipeline's revision otherwise.
C7_CommitHash ==
    \A k \in 1..Len(tasks) :
        (Live(k) /\ Did(k, "parse")) =>
            \A j \in 1..Len(InsertsOf(k)) :
                RowById(InsertsOf(k)[j].id).commit_hash =
                    EffectiveCommit(tasks[k].data.results[InsertsOf(k)[j].rec],
                                    tasks[k].commit)

\* A run with revision master stored one row under deadbeef (the record's
\* parameters.commit) and one under master (a record without parameters).
C7_Witness ==
    \E k \in 1..Len(tasks) :
        /\ Live(k)
        /\ tasks[k].commit = "master"
        /\ Len(InsertsOf(k)) = 2
        /\ RowById(InsertsOf(k)[1].id).commit_hash = "deadbeef"
        /\ RowById(InsertsOf(k)[2].id).commit_hash = "master"

\* C8: a pipeline that succeeds has added exactly one row per record of
\* the artifact: the table grew by the length of the results list, and
\* records 1..n were each inserted once.
C8_OneRowPerRecord ==
    \A k \in 1..Len(tasks) :
        (Live(k) /\ tasks[k].result = Ok) =>
            LET n == Len(tasks[k].data.results)
            IN /\ tasks[k].data.kind = "doc"
               /\ Len(db.rows) = Len(tasks[k].rows0) + n
               /\ SubSeq(db.rows, 1, Len(tasks[k].rows0)) = tasks[k].rows0
               /\ Len(InsertsOf(k)) = n
               /\ \A j \in 1..n : InsertsOf(k)[j].rec = j

\* A pipeline succeeded with a two-record artifact on a non-empty table.
C8_Witness ==
    \E k \in 1..Len(tasks) :
        /\ Live(k)
        /\ tasks[k].result = Ok
        /\ Len(tasks[k].data.results) = 2
        /\ Len(tasks[k].rows0) > 0

\* Number of elements of a JSON array text.
ArrayLen(text) == Len(text) \div 2

\* C9 (as claimed): every record the parser yields, and so every row in
\* the table, has min <= median <= max, min <= mean <= max and as many
\* times as exit codes.
C9_RecordInvariants ==
    /\ \A k \in 1..Len(tasks) :
          \A j \in 1..Len(tasks[k].results) :
              LET r == tasks[k].results[j]
              IN /\ r.min <= r.median /\ r.median <= r.max
                 /\ r.min <= r.mean /\ r.mean <= r.max
                 /\ Len(r.times) = Len(r.exit_codes)
    /\ \A j \in 1..Len(db.rows) :
          LET r == db.rows[j]
          IN /\ r.min <= r.median /\ r.median <= r.max
             /\ r.min <= r.mean /\ r.mean <= r.max
             /\ ArrayLen(r.times) = ArrayLen(r.exit_codes)

\* C10: when the INSERT of record f fails, the pipeline has returned that
\* failure: the rows of records 1..f-1 are in the table after the rows
\* found at the start, and there is no row for record f or a later one.
C10_InsertFailureAborts ==
    \A k \in 1..Len(tasks) :
        (Live(k) /\ tasks[k].failed > 0) =>
            LET f == tasks[k].failed
            IN /\ tasks[k].pc = "done"
               /\ tasks[k].result =
                     Err("Failed to insert benchmark result into database", NoOutput)
               /\ Len(InsertsOf(k)) = f - 1
               /\ \A j \in 1..(f - 1) : InsertsOf(k)[j].rec = j
               /\ Len(db.rows) = Len(tasks[k].rows0) + f - 1
               /\ \A j \in 1..(f - 1) :
                     RowsAdded(k)[j] =
                         Row(InsertsOf(k)[j].id, tasks[k].results[j], tasks[k].commit)
               /\ SubSeq(db.rows, 1, Len(tasks[k].rows0)) = tasks[k].rows0

\* The INSERT of the second record failed after the first was stored.
C10_Witness ==
    \E k \in 1..Len(tasks) :
        /\ Live(k)
        /\ tasks[k].failed = 2
        /\ Len(db.rows) = Len(tasks[k].rows0) + 1

\* Record r lacks one of the members every record must have.
MissingRequired(r) ==
    \E f \in {"command", "mean", "median", "user", "system", "min", "max",
              "times", "exit_codes"} : f \notin DOMAIN r
\* The artifact cannot be read, is not a document, or has such a record.
ParseMustFail(a) ==
    \/ a.kind \in {"absent", "malformed"}
    \/ a.kind = "doc" /\ \E j \in 1..Len(a.results) : MissingRequired(a.results[j])

\* C11: when the artifact the driver left cannot be read, is malformed, or
\* holds a record without a required member (anywhere in the list), the
\* pipeline fails at the read or the parse: the database is not opened, no
\* row is inserted and the table holds the rows it held before.
C11_ParseFailureNoRows ==
    \A k \in 1..Len(tasks) :
        (Live(k) /\ Did(k, "hf_run") /\ ParseMustFail(stub)) =>
            /\ tasks[k].pc \in {"read", "parse", "done"}
            /\ tasks[k].pc = "done" =>
                  tasks[k].result \in
                      {Err("Failed to read results.json file", NoOutput),
                       Err("Failed to parse JSON from results.json", NoOutput)}
            /\ (tasks[k].pc = "done" /\ stub.kind # "absent") =>
                  tasks[k].result = Err("Failed to parse JSON from results.json", NoOutput)
            /\ ~Did(k, "open")
            /\ tasks[k].results = <<>>
            /\ InsertsOf(k) = <<>>
            /\ db.rows = tasks[k].rows0

\* The parse failed on an artifact whose first record is well formed and
\* whose second record has no mean.
C11_Witness ==
    \E k \in 1..Len(tasks) :
        /\ Live(k)
        /\ tasks[k].result = Err("Failed to parse JSON from results.json", NoOutput)
        /\ tasks[k].data = FileDoc(<<RecOverride, RecNoMean>>)
        /\ db.rows = <<>>

\* C12: the benchmarks table is append-only: every step leaves the rows it
\* found in place and unchanged (at most adding rows after them), never
\* removes the file or the table, leaves the database as it is when the
\* schema statement runs on an existing table, and gives every new row a
\* primary key larger than that of every row before it.
C12_AppendOnly ==
    [][/\ IsPrefix(db.rows, db.rows')
       /\ db.exists => db.exists'
       /\ db.table => db.table'
       /\ \A k \in 1..Len(tasks) :
             (At(k, "create") /\ tasks'[k].pc = "insert" /\ db.table) => db' = db
       /\ \A j \in 2..Len(db.rows') : db.rows'[j].id > db.rows'[j - 1].id]_vars

\* A later invocation ran the schema statement on a table that held rows
\* and then added a row after them.
C12_Witness ==
    \E k \in 1..Len(tasks) :
        /\ Live(k)
        /\ Did(k, "create")
        /\ tasks[k].rows0 # <<>>
        /\ Len(db.rows) > Len(tasks[k].rows0)
        /\ IsPrefix(tasks[k].rows0, db.rows)

\* C13: across daemon invocations the inserts do not interleave: in the
\* order the INSERT statements ran, all those of an earlier invocation come
\* before any of a later one, and while an invocation inserts, every
\* earlier invocation has finished.
C13_NoInterleaving ==
    /\ \A i \in 1..Len(inserts) : \A j \in i..Len(inserts) :
          inserts[i].task <= inserts[j].task
    /\ \A k \in 1..Len(tasks) :
          (InFlight(k) /\ Did(k, "open")) =>
              \A h \in 1..(k - 1) : tasks[h].pc = "done"

\* Two daemon invocations have each inserted a row.
C13_Witness ==
    /\ command.kind = "daemon"
    /\ Len(inserts) >= 2
    /\ inserts[1].task = 1
    /\ inserts[Len(inserts)].task = 2
    /\ tasks[2].fire > tasks[1].fire

\* C14 (as claimed): being unable to open the database file ends the
\* process with a non-zero status in the daemon as in the run subcommand:
\* when the caller resumes from a pipeline in which Connection::open
\* failed, the process exits non-zero instead of logging and going on.
\* (The schedule expression is a literal that always parses.)
C14_OpenFailureExits ==
    [][(/\ pc \in {"await", "run_await"}
        /\ Resolved
        /\ LastResult = Err("Failed to connect to SQLite database", NoOutput)
        /\ pc' # pc)
       => (pc' = "exit" /\ exit_code' # 0)]_vars

\* C15: the run subcommand starts one pipeline; the pipeline returns Ok
\* exactly when every step up to the last insert completed, the process
\* exits non-zero exactly when the pipeline returned an error, and it exits
\* zero only with one row per record of the artifact in the table.  With no
\* subcommand no pipeline is started, the database is untouched and the
\* exit status is 0.
C15_RunExitStatus ==
    /\ command.kind = "run" =>
          /\ Len(tasks) <= 1
          /\ pc # "exit" => exit_code = 0
          /\ \A k \in 1..Len(tasks) :
                (Live(k) /\ tasks[k].pc = "done") =>
                    (tasks[k].result = Ok <=>
                        tasks[k].log = PipelineOrder(Len(tasks[k].results)))
          /\ pc = "exit" =>
                /\ Len(tasks) = 1
                /\ tasks[1].joined
                /\ exit_code # 0 <=> tasks[1].result.state = "err"
                /\ exit_code # 0 <=> stderr = 1
                /\ exit_code = 0 =>
                      /\ FromStrOk(stub)
                      /\ Len(db.rows) = Len(stub.results)
                      /\ Len(inserts) = Len(stub.results)
                      /\ \A j \in 1..Len(inserts) : inserts[j].rec = j
    /\ command.kind = "none" =>
          /\ pc \in {"main", "exit"}
          /\ tasks = <<>>
          /\ db = EmptyDb
          /\ exit_code = 0
          /\ stderr = 0

\* The run subcommand has exited non-zero after the insert of the second
\* record failed.
C15_Witness ==
    /\ command.kind = "run"
    /\ pc = "exit"
    /\ exit_code # 0
    /\ Len(db.rows) = 1
    /\ Len(stub.results) = 2

\* The token a member name is written as in JSON text.
NameToken == [commit |-> "\"commit\"", threads |-> "\"threads\""]
\* The JSON text has the member name with the given value.
Encodes(text, name, value) ==
    \E j \in 1..(Len(text) - 2) :
        text[j] = NameToken[name] /\ text[j + 1] = ":" /\ text[j + 2] = value

\* C16 (as claimed): the parameters text of a row holds every name/value
\* pair of the parameters object of the artifact record it was made from,
\* and is null for a record without parameters.
C16_FullParameters ==
    \A k \in 1..Len(tasks) :
        (Live(k) /\ Did(k, "parse")) =>
            \A j \in 1..Len(InsertsOf(k)) :
                LET r == tasks[k].data.results[InsertsOf(k)[j].rec]
                    text == RowById(InsertsOf(k)[j].id).parameters
                IN  IF "parameters" \in DOMAIN r /\ r["parameters"].kind = "object"
                    THEN \A name \in DOMAIN r["parameters"].members :
                            Encodes(text, name, r["parameters"].members[name])
                    ELSE text = <<"null">>

\* C17: whenever the daemon starts a pipeline, the pipeline is given the
\* revision master, it is for the fire time the loop last examined and
\* slept for, and the clock is not before that fire time.
C17_MasterAfterWait ==
    [][(command.kind = "daemon" /\ Len(tasks') = Len(tasks) + 1) =>
          LET t == tasks'[Len(tasks')]
              e == examined[Len(examined)]
          IN  /\ t.commit = "master"
              /\ t.pc = "git_chdir"
              /\ pc = "sleep"
              /\ t.fire = datetime
              /\ e.t = t.fire
              /\ e.at <= t.fire
              /\ now >= t.fire]_vars

\* The daemon's second pipeline has just been started, at its fire time,
\* after a sleep that began before that fire time.
C17_Witness ==
    /\ command.kind = "daemon"
    /\ Len(tasks) = 2
    /\ tasks[2].pc = "git_chdir"
    /\ tasks[2].commit = "master"
    /\ now = tasks[2].fire
    /\ examined[Len(examined)].t = tasks[2].fire
    /\ examined[Len(examined)].at < tasks[2].fire

\* C18 (as claimed): in the step in which the driver runs, what the driver
\* writes to its standard output appears on the standard output of the
\* process, and it is captured too: when the driver exits non-zero, the
\* error returned carries the captured stdout and stderr.
C18_ShownLiveAndCaptured ==
    [][\A k \in 1..Len(tasks) :
          (At(k, "hf_run") /\ tasks'[k].driver.spawned) =>
              LET out == tasks'[k].output
              IN  /\ out.stdout # "" => stdout' = Append(stdout, out.stdout)
                  /\ NonZero(tasks'[k].driver) =>
                        tasks'[k].result = Err("Hyperfine command failed", out)]_vars

\* The steps that come before the store, in program order.
BeforeStore ==
    <<"git_chdir", "git_fetch", "git_checkout", "hf_chdir", "hf_run", "read", "parse">>

\* A closure that returned an error before completing the parse has not
\* opened the database and the table holds the rows it held at the start.
FailedBeforeStore ==
    \A k \in 1..Len(tasks) :
        (/\ Live(k)
         /\ tasks[k].pc = "done"
         /\ tasks[k].result.state = "err"
         /\ tasks[k].result # Err("Task failed", NoOutput)
         /\ ~Did(k, "parse")) =>
            /\ ~Did(k, "open") /\ ~Did(k, "create")
            /\ InsertsOf(k) = <<>>
            /\ db.rows = tasks[k].rows0

\* C19: the database changes only in a step of a closure that is in the
\* store part after completing the workspace steps, a driver run that
\* exited 0, the read and the parse; a step of a closure that has not
\* completed the parse leaves the database as it is, and a closure that
\* returned an error before the store has added no row.
C19_StoreLast ==
    [][/\ \A k \in 1..Len(tasks) :
            (Live(k) /\ ~Did(k, "parse") /\ tasks'[k] # tasks[k]) => db' = db
       /\ db' # db =>
            \E k \in 1..Len(tasks) :
                /\ tasks[k].pc \in {"open", "create", "insert"}
                /\ IsPrefix(BeforeStore, tasks[k].log)
                /\ tasks[k].driver = Exited(0)
                /\ FromStrOk(tasks[k].data)
       /\ FailedBeforeStore']_vars

\* A later pipeline failed in the workspace step; the table holds exactly
\* the rows the earlier pipeline stored.
C19_Witness ==
    \E k \in 1..Len(tasks) :
        /\ Live(k)
        /\ tasks[k].result.state = "err"
        /\ tasks[k].result # Err("Task failed", NoOutput)
        /\ ~Did(k, "hf_chdir")
        /\ tasks[k].rows0 # <<>>
        /\ db.rows = tasks[k].rows0

\* Record r has a parameters object.
HasParametersObject(r) == "parameters" \in DOMAIN r /\ r["parameters"].kind = "object"
\* Some record of the artifact has a parameters object without commit.
CommitMissing(a) ==
    /\ a.kind = "doc"
    /\ \E j \in 1..Len(a.results) :
          /\ HasParametersObject(a.results[j])
          /\ "commit" \notin DOMAIN a.results[j]["parameters"].members

\* C20: an artifact with a record whose parameters object has no commit
\* fails to parse as a whole: the pipeline returns the parse error and no
\* record of the artifact is stored.  A row is filed under the pipeline's
\* revision only for a record whose parameters are absent or null; for a
\* record with a parameters object it is filed under that object's commit.
C20_CommitRequired ==
    \A k \in 1..Len(tasks) :
        /\ (Live(k) /\ Did(k, "hf_run") /\ CommitMissing(stub)) =>
              /\ tasks[k].pc \in {"read", "parse", "done"}
              /\ tasks[k].pc = "done" =>
                    tasks[k].result = Err("Failed to parse JSON from results.json", NoOutput)
              /\ tasks[k].results = <<>>
              /\ InsertsOf(k) = <<>>
              /\ db.rows = tasks[k].rows0
        /\ (Live(k) /\ Did(k, "parse")) =>
              \A j \in 1..Len(InsertsOf(k)) :
                  LET r == tasks[k].data.results[InsertsOf(k)[j].rec]
                      row == RowById(InsertsOf(k)[j].id)
                  IN  IF HasParametersObject(r)
                      THEN /\ "commit" \in DOMAIN r["parameters"].members
                           /\ row.commit_hash = r["parameters"].members["commit"]
                      ELSE row.commit_hash = tasks[k].commit

\* The parse failed on an artifact whose second record has a parameters
\* object without commit, after a record without parameters.
C20_Witness ==
    \E k \in 1..Len(tasks) :
        /\ Live(k)
        /\ tasks[k].data = FileDoc(<<RecBare, RecNoCommit>>)
        /\ tasks[k].result = Err("Failed to parse JSON from results.json", NoOutput)
        /\ InsertsOf(k) = <<>>

====
